---- MODULE Spec2Model ----
(***************************************************************************)
(* A model of ctapipe.visualization.mpl.CameraDisplay.                     *)
(*                                                                         *)
(* One CameraDisplay is constructed over a geometry (Init) and is then     *)
(* driven through its public methods: set_cmap, set_image, add_ellipse and *)
(* overlay_moments.  The matplotlib objects the class talks to are part of *)
(* the state: the PatchCollection of pixel patches, every Axes ("surface") *)
(* with the artists added to it, the pyplot notion of the current figure,  *)
(* and what each canvas last rendered.                                     *)
(*                                                                         *)
(* Numbers.  Coordinates, areas, lengths and widths are integers.  Angles  *)
(* in radians are counted in units of pi/4, so np.degrees is 45 * a.  The  *)
(* radius of a hexagon is irrational and is kept in thousandths, rounded   *)
(* down.  Each Axes lives in a figure of its own.  Keyword arguments are   *)
(* sets of <<key, value>> pairs, the values written as strings.            *)
(***************************************************************************)
EXTENDS Integers, Sequences, FiniteSets, TLC

VARIABLES
    geom,       \* self.geom: the geometry the display was constructed over
    axes,       \* self.axes: the surface the display draws on
    cmap,       \* self.cmap
    pixels,     \* self.pixels: the PatchCollection
    surface,    \* per Axes: the artists and decorations it holds
    drawn,      \* per Axes: what its canvas rendered at its last draw
    current,    \* pyplot's current Axes / figure
    nextId,     \* identity of the next Ellipse object created
    last        \* the most recent call, its arguments and its outcome

vars == <<geom, axes, cmap, pixels, surface, drawn, current, nextId, last>>

(***************************************************************************)
(* Bounds of the model.                                                    *)
(***************************************************************************)
MaxOverlays == 2    \* Ellipse objects created in one run
MaxLen      == 2    \* largest extent of one dimension of an image

(***************************************************************************)
(* Values.                                                                 *)
(***************************************************************************)
None          == [none |-> TRUE]
Surfaces      == {"ax1", "ax2"}
Cmaps         == {"jet", "hot"}
ImageValues   == {0, 7}

RECURSIVE SqrtSearch(_, _, _)
SqrtSearch(n, lo, hi) ==
    IF lo = hi THEN lo
    ELSE LET mid == (lo + hi + 1) \div 2
         IN  IF mid * mid <= n THEN SqrtSearch(n, mid, hi)
                               ELSE SqrtSearch(n, lo, mid - 1)

\* numpy.sqrt on the integers the model uses: the floor of the square root,
\* exact on perfect squares.
sqrt(n) == SqrtSearch(n, 0, IF n < 46340 THEN n ELSE 46340)

\* np.radians(0)
radians(deg) == IF deg = 0 THEN 0 ELSE (deg \div 45)

\* np.degrees(angle), angle in units of pi/4
degrees(a) == 45 * a

(***************************************************************************)
(* Geometries: pix_x, pix_y and pix_area of equal length, a pixel type and *)
(* the unit of the coordinates.                                            *)
(***************************************************************************)
Geometries ==
    { [pix_x |-> <<3>>, pix_y |-> <<5>>, pix_area |-> <<2>>,
       pix_type |-> "hexagonal", unit |-> "m"],
      [pix_x |-> <<0, 2>>, pix_y |-> <<1, 4>>, pix_area |-> <<1, 4>>,
       pix_type |-> "rectangular", unit |-> "m"] }

\* self.geom.pix_x.shape: pix_x is a one-dimensional array
PixShape(g) == <<Len(g.pix_x)>>

\* str.startswith("hex") on the pixel types of the model
StartsWithHex(t) == t \in {"hex", "hexagonal"}

\* a/b <= c/d for a, c >= 0 and b, d > 0, decided on the continued fractions
\* of the two, so that no product is formed.
RECURSIVE LeqFraction(_, _, _, _)
LeqFraction(a, b, c, d) ==
    IF a \div b # c \div d THEN a \div b < c \div d
    ELSE IF a % b = 0 THEN TRUE
    ELSE IF c % d = 0 THEN FALSE
    ELSE LeqFraction(d, c % d, b, a % b)

\* Whether r thousandths are at most sqrt(aa*2/3/sqrt(3)), for r >= 1:
\* (r/1000)^4 <= aa^2 * 4/27, that is 27 * (r*r)^2 <= (2*aa*10^6)^2, that is
\* 9*r*r / (2*aa*10^6) <= (2*aa*10^6) / (3*r*r).
HexRadiusAtLeast(aa, r) ==
    LeqFraction(9 * r * r, 2 * aa * 1000000, 2 * aa * 1000000, 3 * r * r)

RECURSIVE HexRadiusSearch(_, _, _)
HexRadiusSearch(aa, lo, hi) ==
    IF lo = hi THEN lo
    ELSE LET mid == (lo + hi + 1) \div 2
         IN  IF HexRadiusAtLeast(aa, mid) THEN HexRadiusSearch(aa, mid, hi)
                                          ELSE HexRadiusSearch(aa, lo, mid - 1)

\* The largest radius in thousandths the search tries: 9 * r * r stays an
\* integer of 32 bits.
MaxHexRadiusMilli == 15446

\* rr = sqrt(aa*2/3/sqrt(3)) in thousandths, rounded down: the largest r with
\* r/1000 <= rr, found exactly.  For the areas 0..619, whose radius is below
\* MaxHexRadiusMilli thousandths.
HexRadiusMilli(aa) ==
    IF aa = 0 THEN 0 ELSE HexRadiusSearch(aa, 0, MaxHexRadiusMilli)

\* RegularPolygon((xx, yy), 6, radius=rr, orientation=np.radians(0), fill=True)
RegularPolygon(xx, yy, aa) ==
    [kind |-> "RegularPolygon", xy |-> <<xx, yy>>, numVertices |-> 6,
     radius_milli |-> HexRadiusMilli(aa), orientation |-> radians(0),
     fill |-> TRUE]

\* Rectangle((xx, yy), width=2*rr, height=2*rr, angle=np.radians(0), fill=True)
\* with rr = sqrt(aa).  matplotlib anchors a Rectangle at xy, its lower left
\* corner.
Rectangle(xx, yy, aa) ==
    LET rr == sqrt(aa)
    IN  [kind |-> "Rectangle", xy |-> <<xx, yy>>, width |-> 2 * rr,
         height |-> 2 * rr, angle |-> radians(0), fill |-> TRUE]

\* The body of the loop over the pixels: one patch per pixel.
PixelPatch(xx, yy, aa, pix_type) ==
    IF StartsWithHex(pix_type) THEN RegularPolygon(xx, yy, aa)
                               ELSE Rectangle(xx, yy, aa)

Min(a, b) == IF a <= b THEN a ELSE b

\* A mutant of BuildPatches: the loop stops one pixel early.
BuildPatchesShort(g) ==
    [i \in 1..(Min(Len(g.pix_x), Min(Len(g.pix_y), Len(g.pix_area))) - 1) |->
        PixelPatch(g.pix_x[i], g.pix_y[i], g.pix_area[i], g.pix_type)]

\* for xx, yy, aa in zip(pix_x, pix_y, pix_area): patches.append(poly)
BuildPatches(g) ==
    [i \in 1..Min(Len(g.pix_x), Min(Len(g.pix_y), Len(g.pix_area))) |->
        PixelPatch(g.pix_x[i], g.pix_y[i], g.pix_area[i], g.pix_type)]

\* PatchCollection(patches, cmap=self.cmap, linewidth=0); no array is set
PatchCollection(patches, cm) ==
    [patches |-> patches, cmap |-> cm, linewidth |-> 0, A |-> None]

\* The extent of a Rectangle patch: from its anchor xy to xy + (width, height)
Extent(p) ==
    [x0 |-> p.xy[1], x1 |-> p.xy[1] + p.width,
     y0 |-> p.xy[2], y1 |-> p.xy[2] + p.height]

(***************************************************************************)
(* Surfaces.                                                               *)
(***************************************************************************)
\* An Axes nothing was added to.
EmptyAxes ==
    [collections |-> <<>>, patches |-> <<>>, aspect |-> "auto", title |-> "",
     xlabel |-> "", ylabel |-> "", callbacks |-> {}]

\* What __init__ does to its Axes: add_collection, set_aspect, set_title,
\* set_xlabel, set_ylabel, mpl_connect('pick_event', self._on_pick).
SetUpAxes(ax, g, title) ==
    [ax EXCEPT !.collections = Append(@, "pixels"),
               !.aspect = "equal",
               !.title = title,
               !.xlabel = "X position (" \o g.unit \o ")",
               !.ylabel = "Y position (" \o g.unit \o ")",
               !.callbacks = @ \cup {<<"pick_event", "_on_pick">>}]

\* What a draw of surface s puts on its canvas: the artists of the Axes, the
\* pixel collection with the colour map and the array it holds at that time.
Render(surf, pix, s) ==
    [collections |-> [i \in 1..Len(surf[s].collections) |-> pix],
     patches |-> surf[s].patches,
     title |-> surf[s].title]

NeverDrawn == [never |-> TRUE]

\* plt.draw(): redraws pyplot's current figure.
PltDraw(drw, surf, pix, cur) == [drw EXCEPT ![cur] = Render(surf, pix, cur)]

(***************************************************************************)
(* Images: numpy arrays, a shape and the values in C order.                *)
(***************************************************************************)
RECURSIVE Size(_)
Size(shape) == IF shape = <<>> THEN 1 ELSE Head(shape) * Size(Tail(shape))

\* One-dimensional arrays of every length up to MaxLen, and the same values
\* arranged as a column.
ImageShapes == {<<n>> : n \in 0..MaxLen} \cup {<<n, 1>> : n \in 1..MaxLen}

Images ==
    UNION { { [shape |-> sh, data |-> d] : d \in [1..Size(sh) -> ImageValues] }
            : sh \in ImageShapes }

(***************************************************************************)
(* Calls and outcomes.                                                     *)
(***************************************************************************)
NoExc == [type |-> "none"]

\* ValueError("Image has a different shape {} than the given CameraGeometry {}"
\*            .format(image.shape, self.geom.pix_x.shape))
ValueError(image, g) ==
    [type |-> "ValueError", shapes |-> <<image.shape, PixShape(g)>>]

Call(op, args, exc, ret) == [op |-> op, args |-> args, exc |-> exc, ret |-> ret]

(***************************************************************************)
(* Construction: CameraDisplay(geometry, axes=axesArg, title="Camera").    *)
(***************************************************************************)
\* self.axes = axes if axes is not None else plt.gca()
NoAxes == "None"

ChooseAxes(axesArg, cur) == IF axesArg # NoAxes THEN axesArg ELSE cur

Init ==
    \E g \in Geometries, cur \in Surfaces, axesArg \in Surfaces \cup {NoAxes} :
        /\ geom = g
        /\ current = cur
        /\ axes = ChooseAxes(axesArg, cur)
        /\ cmap = "jet"
        /\ pixels = PatchCollection(BuildPatches(g), "jet")
        /\ surface = [s \in Surfaces |->
                        IF s = ChooseAxes(axesArg, cur)
                        THEN SetUpAxes(EmptyAxes, g, "Camera")
                        ELSE EmptyAxes]
        /\ drawn = [s \in Surfaces |-> NeverDrawn]
        /\ nextId = 1
        /\ last = Call("__init__", None, NoExc, None)

(***************************************************************************)
(* set_cmap                                                                *)
(***************************************************************************)
\* A mutant of CollectionSetCmap: the collection is set up anew with the
\* colour map, and loses its array.
CollectionSetCmapFresh(coll, cm) == PatchCollection(coll.patches, cm)

\* self.pixels.set_cmap(cmap)
CollectionSetCmap(coll, cm) == [coll EXCEPT !.cmap = cm]

set_cmap(cm) ==
    /\ pixels' = CollectionSetCmap(pixels, cm)
    /\ last' = Call("set_cmap", cm, NoExc, None)
    /\ UNCHANGED <<geom, axes, cmap, surface, drawn, current, nextId>>

(***************************************************************************)
(* set_image                                                               *)
(***************************************************************************)
\* A mutant of ShapeMismatch: the element counts are compared.
SizeMismatch(image, g) == Size(image.shape) # Size(PixShape(g))

\* image.shape != self.geom.pix_x.shape
ShapeMismatch(image, g) == image.shape # PixShape(g)

Reverse(s) == [i \in 1..Len(s) |-> s[Len(s) + 1 - i]]

\* A mutant of CollectionSetArray: the values are stored back to front.
CollectionSetArrayReversed(coll, image) ==
    [coll EXCEPT !.A = [image EXCEPT !.data = Reverse(@)]]

\* self.pixels.set_array(image)
CollectionSetArray(coll, image) == [coll EXCEPT !.A = image]

\* A mutant of set_image: the array is stored before the shapes are compared.
set_image_store_first(image) ==
    /\ pixels' = CollectionSetArray(pixels, image)
    /\ IF ShapeMismatch(image, geom)
       THEN /\ last' = Call("set_image", image, ValueError(image, geom), None)
            /\ UNCHANGED drawn
       ELSE /\ drawn' = PltDraw(drawn, surface, pixels', current)
            /\ last' = Call("set_image", image, NoExc, None)
    /\ UNCHANGED <<geom, axes, cmap, surface, current, nextId>>

set_image(image) ==
    IF ShapeMismatch(image, geom)
    THEN /\ last' = Call("set_image", image, ValueError(image, geom), None)
         /\ UNCHANGED <<geom, axes, cmap, pixels, surface, drawn, current,
                        nextId>>
    ELSE /\ pixels' = CollectionSetArray(pixels, image)
         /\ drawn' = PltDraw(drawn, surface, pixels', current)
         /\ last' = Call("set_image", image, NoExc, None)
         /\ UNCHANGED <<geom, axes, cmap, surface, current, nextId>>

(***************************************************************************)
(* add_ellipse and overlay_moments                                         *)
(***************************************************************************)
\* Keyword arguments a caller passes as **kwargs: none, a style of the
\* Ellipse, a key the Ellipse call names itself, a key the call of
\* add_ellipse names itself, add_ellipse's own parameter asymmetry, and a
\* parameter of overlay_moments, which is no property of an Ellipse.
StyleArgs ==
    { {}, {<<"color", "red">>}, {<<"fill", "True">>}, {<<"length", "3">>},
      {<<"asymmetry", "1">>}, {<<"momparams", "9">>} }

EllipseArgs ==
    { [centroid |-> <<1, 2>>, length |-> 4, width |-> 2, angle |-> 0],
      [centroid |-> <<0, 0>>, length |-> 2, width |-> 1, angle |-> 1] }

\* reco.MomentParameters; psi in units of pi/4
MomentParameters ==
    { [cen_x |-> 1, cen_y |-> 2, length |-> 4, width |-> 2, psi |-> 0],
      [cen_x |-> 0, cen_y |-> 0, length |-> 2, width |-> 1, psi |-> 1] }

Keys(kwargs) == {kv[1] : kv \in kwargs}

\* The parameters of add_ellipse its caller gives (self by the method call,
\* the others by position or by name): a key of **kwargs that names one of
\* them makes the call fail.
GivenParameters == {"self", "centroid", "length", "width", "angle"}

\* def overlay_moments(self, momparams, **kwargs): the parameters its caller
\* gives; a key of **kwargs that names one of them makes the call fail.
OverlayMomentsParameters == {"self", "momparams"}

OverlayMomentsKeywordClash(kwargs) ==
    Keys(kwargs) \cap OverlayMomentsParameters # {}

AddEllipseKeywordClash(kwargs) == Keys(kwargs) \cap GivenParameters # {}

\* def add_ellipse(self, centroid, length, width, angle, asymmetry=0.0,
\*                 **kwargs): a key asymmetry is bound to the parameter, the
\* other keys are add_ellipse's kwargs.
BoundKwargs(kwargs) == {kv \in kwargs : kv[1] # "asymmetry"}

\* The keys the Ellipse call gives by name.
EllipseParameters == {"xy", "width", "height", "angle", "fill"}

\* Ellipse(xy=, width=, height=, angle=, fill=False, **kwargs): a key of kwargs
\* that is also given by name makes the call fail.
EllipseKeywordClash(kwargs) ==
    Keys(BoundKwargs(kwargs)) \cap EllipseParameters # {}

\* The properties an Ellipse (a matplotlib Patch) can be given by keyword.
PatchProperties ==
    {"agg_filter", "alpha", "animated", "antialiased", "aa", "capstyle",
     "clip_box", "clip_on", "clip_path", "color", "edgecolor", "ec",
     "facecolor", "fc", "figure", "gid", "hatch", "joinstyle", "label",
     "linestyle", "ls", "linewidth", "lw", "path_effects", "picker",
     "rasterized", "sketch_params", "snap", "transform", "url", "visible",
     "zorder"}

\* The keys of kwargs the Ellipse knows no property for: the Ellipse raises
\* while it is built.
UnknownProperties(kwargs) ==
    (Keys(BoundKwargs(kwargs)) \ EllipseParameters) \ PatchProperties

\* AttributeError: unknown property ...
AttributeError(keys) == [type |-> "AttributeError", keys |-> keys]

\* TypeError: callee() got multiple values for keyword argument ...
TypeError(callee, keys) ==
    [type |-> "TypeError", callee |-> callee, keys |-> keys]

\* A mutant of Ellipse: length and width change places.
EllipseSwapped(id, centroid, length, width, angle, kwargs) ==
    [kind |-> "Ellipse", id |-> id, xy |-> centroid, width |-> length,
     height |-> width, angle |-> degrees(angle), fill |-> FALSE,
     style |-> kwargs]

\* Ellipse(xy=centroid, width=width, height=length, angle=np.degrees(angle),
\*         fill=False, **kwargs)
Ellipse(id, centroid, length, width, angle, kwargs) ==
    [kind |-> "Ellipse", id |-> id, xy |-> centroid, width |-> width,
     height |-> length, angle |-> degrees(angle), fill |-> FALSE,
     style |-> kwargs]

\* self.axes.add_patch(ellipse)
AddPatch(surf, s, ellipse) ==
    [surf EXCEPT ![s].patches = Append(@, ellipse)]

\* The outcome of add_ellipse: the exception raised (at the call itself, at
\* the call of Ellipse, or in it) and the value returned.
AddEllipseOutcome(kwargs) ==
    IF AddEllipseKeywordClash(kwargs)
    THEN [exc |-> TypeError("add_ellipse",
                            Keys(kwargs) \cap GivenParameters),
          ret |-> None]
    ELSE IF EllipseKeywordClash(kwargs)
    THEN [exc |-> TypeError("Ellipse",
                            Keys(BoundKwargs(kwargs)) \cap EllipseParameters),
          ret |-> None]
    ELSE IF UnknownProperties(kwargs) # {}
    THEN [exc |-> AttributeError(UnknownProperties(kwargs)), ret |-> None]
    ELSE [exc |-> NoExc, ret |-> nextId]

\* Whether a call add_ellipse(centroid, length, width, angle, **kwargs)
\* raises.
AddEllipseRaises(kwargs) == AddEllipseOutcome(kwargs).exc.type # "none"

\* A call self.add_ellipse(centroid, length, width, angle, **kwargs): the
\* binding of its arguments and its body, what it does to the display and
\* the surfaces.
AddEllipseBody(centroid, length, width, angle, kwargs) ==
    IF AddEllipseRaises(kwargs)
    THEN UNCHANGED <<geom, axes, cmap, pixels, surface, drawn, current,
                     nextId>>
    ELSE /\ nextId <= MaxOverlays
         /\ surface' = AddPatch(surface, axes,
                Ellipse(nextId, centroid, length, width, angle,
                        BoundKwargs(kwargs)))
         /\ drawn' = PltDraw(drawn, surface', pixels, current)
         /\ nextId' = nextId + 1
         /\ UNCHANGED <<geom, axes, cmap, pixels, current>>

add_ellipse(centroid, length, width, angle, kwargs) ==
    /\ AddEllipseBody(centroid, length, width, angle, kwargs)
    /\ last' = Call("add_ellipse",
                    [centroid |-> centroid, length |-> length,
                     width |-> width, angle |-> angle, kwargs |-> kwargs],
                    AddEllipseOutcome(kwargs).exc,
                    AddEllipseOutcome(kwargs).ret)

\* The outcome of overlay_moments: the exception raised, at the call itself
\* or by add_ellipse.
OverlayMomentsOutcome(kwargs) ==
    IF OverlayMomentsKeywordClash(kwargs)
    THEN [exc |-> TypeError("overlay_moments",
                            Keys(kwargs) \cap OverlayMomentsParameters),
          ret |-> None]
    ELSE [exc |-> AddEllipseOutcome(kwargs).exc, ret |-> None]

\* A mutant of overlay_moments: cen_x and cen_y change places.
overlay_moments_swapped(momparams, kwargs) ==
    /\ IF OverlayMomentsKeywordClash(kwargs)
       THEN UNCHANGED <<geom, axes, cmap, pixels, surface, drawn, current,
                        nextId>>
       ELSE AddEllipseBody(<<momparams.cen_y, momparams.cen_x>>,
                           momparams.length, momparams.width, momparams.psi,
                           kwargs)
    /\ last' = Call("overlay_moments",
                    [momparams |-> momparams, kwargs |-> kwargs],
                    OverlayMomentsOutcome(kwargs).exc,
                    OverlayMomentsOutcome(kwargs).ret)

\* def overlay_moments(self, momparams, **kwargs):
\*     self.add_ellipse(centroid=(momparams.cen_x, momparams.cen_y),
\*                      length=momparams.length, width=momparams.width,
\*                      angle=momparams.psi, **kwargs)
\* nothing is returned
overlay_moments(momparams, kwargs) ==
    /\ IF OverlayMomentsKeywordClash(kwargs)
       THEN UNCHANGED <<geom, axes, cmap, pixels, surface, drawn, current,
                        nextId>>
       ELSE AddEllipseBody(<<momparams.cen_x, momparams.cen_y>>,
                           momparams.length, momparams.width, momparams.psi,
                           kwargs)
    /\ last' = Call("overlay_moments",
                    [momparams |-> momparams, kwargs |-> kwargs],
                    OverlayMomentsOutcome(kwargs).exc,
                    OverlayMomentsOutcome(kwargs).ret)

Next ==
    \/ \E cm \in Cmaps : set_cmap(cm)
    \/ \E image \in Images : set_image(image)
    \/ \E e \in EllipseArgs, kwargs \in StyleArgs :
          add_ellipse(e.centroid, e.length, e.width, e.angle, kwargs)
    \/ \E m \in MomentParameters, kwargs \in StyleArgs :
          overlay_moments(m, kwargs)

Spec == Init /\ [][Next]_vars

(***************************************************************************)
(* What the properties speak of.                                           *)
(***************************************************************************)
\* The pixel count fixed at construction.
N == Len(geom.pix_x)

\* The overlays on the display's surface.
Overlays == surface[axes].patches

\* The two states of the display.
StateOf(pix) == IF pix.A = None THEN "constructed-empty" ELSE "has-image"

\* len(image)
Length(image) == image.shape[1]

Succeeded(call, op) == call.op = op /\ call.exc = NoExc

(***************************************************************************)
(* C1.  A set_image whose image length differs from N fails with the       *)
(* shape-mismatch error and leaves everything as it was: the shapes, the   *)
(* stored colour values, the colour map, the overlays, and what is drawn.  *)
(***************************************************************************)
C1_FailedSetImageChangesNothing ==
    [][ (last'.op = "set_image" /\ Length(last'.args) # N)
          => /\ last'.exc.type = "ValueError"
             /\ UNCHANGED <<geom, axes, cmap, pixels, surface, drawn,
                            current, nextId>> ]_vars

\* A failed set_image on a display that holds an image and an overlay.
C1_Witness ==
    /\ last.op = "set_image"
    /\ Length(last.args) # N
    /\ last.exc.type = "ValueError"
    /\ pixels.A # None
    /\ Len(Overlays) >= 1

(***************************************************************************)
(* C2.  set_image with an image of exactly N scalar values (shape (N,))    *)
(* succeeds and the collection then stores those values element by         *)
(* element, in pixel order; no other step changes the stored values, so    *)
(* they are always those of the most recent successful set_image.          *)
(***************************************************************************)
C2_StoredValuesAreTheImage ==
    [][ /\ (last'.op = "set_image" /\ last'.args.shape = <<N>>)
            => /\ last'.exc = NoExc
               /\ Len(pixels'.A.data) = N
               /\ \A i \in 1..N : pixels'.A.data[i] = last'.args.data[i]
        /\ ~Succeeded(last', "set_image") => pixels'.A = pixels.A ]_vars

\* A successful set_image of two different values.
C2_Witness ==
    /\ Succeeded(last, "set_image")
    /\ N = 2
    /\ pixels.A.data[1] # pixels.A.data[2]

(***************************************************************************)
(* C3, as claimed.  set_image raises exactly when the element count of the *)
(* image differs from N, whatever the arrangement of the elements.         *)
(***************************************************************************)
C3_RaisesIffElementCountDiffers ==
    last.op = "set_image"
        => (last.exc.type = "ValueError" <=> Size(last.args.shape) # N)

(***************************************************************************)
(* C3, amended.  set_image raises exactly when the shape of the image      *)
(* differs from the shape (N,) of the geometry's pixel array, and the      *)
(* error carries the shape of the image and the shape expected.            *)
(***************************************************************************)
C3_RaisesIffShapeDiffers ==
    last.op = "set_image"
        => /\ last.exc.type = "ValueError" <=> last.args.shape # <<N>>
           /\ last.exc.type = "ValueError"
                => last.exc.shapes = <<last.args.shape, <<N>>>>
           /\ last.exc.type \in {"ValueError", "none"}

\* An image of N elements arranged as a column is rejected.
C3_Witness ==
    /\ last.op = "set_image"
    /\ Size(last.args.shape) = N
    /\ last.exc.type = "ValueError"

(***************************************************************************)
(* C4.  The collection holds exactly N shapes, the i-th built from the     *)
(* i-th pixel (x_i, y_i, area_i), in every state reachable by set_cmap,    *)
(* set_image, add_ellipse and overlay_moments; the surface holds that one  *)
(* collection.                                                             *)
(***************************************************************************)
C4_ShapesAreThePixels ==
    /\ Len(pixels.patches) = N
    /\ \A i \in 1..N :
          /\ pixels.patches[i].xy = <<geom.pix_x[i], geom.pix_y[i]>>
          /\ pixels.patches[i] =
                PixelPatch(geom.pix_x[i], geom.pix_y[i], geom.pix_area[i],
                           geom.pix_type)
    /\ surface[axes].collections = <<"pixels">>

\* Two shapes, after an image, another colour map and an overlay.
C4_Witness ==
    /\ N = 2
    /\ pixels.A # None
    /\ pixels.cmap = "hot"
    /\ Len(Overlays) >= 1
    /\ last.op = "set_image"
    /\ last.exc.type = "ValueError"

(***************************************************************************)
(* C5.  set_cmap changes the colour map of the collection and nothing      *)
(* else: the shapes, the stored image values, the overlays and the         *)
(* empty / has-image state stay.                                           *)
(***************************************************************************)
C5_SetCmapChangesOnlyTheColourMap ==
    [][ last'.op = "set_cmap"
          => /\ pixels'.cmap = last'.args
             /\ pixels'.patches = pixels.patches
             /\ pixels'.A = pixels.A
             /\ pixels'.linewidth = pixels.linewidth
             /\ StateOf(pixels') = StateOf(pixels)
             /\ UNCHANGED <<geom, axes, surface, nextId>> ]_vars

\* A set_cmap on a display that holds an image and an overlay.
C5_Witness ==
    /\ last.op = "set_cmap"
    /\ pixels.cmap = "hot"
    /\ pixels.A # None
    /\ Len(Overlays) >= 1

(***************************************************************************)
(* C6.  The display starts constructed-empty; a successful set_image, and  *)
(* no other step, moves it to has-image; has-image is never left.          *)
(***************************************************************************)
C6_TwoStates ==
    /\ StateOf(pixels) = "constructed-empty"
    /\ [][ /\ StateOf(pixels) = "has-image" => StateOf(pixels') = "has-image"
           /\ Succeeded(last', "set_image") => StateOf(pixels') = "has-image"
           /\ ~Succeeded(last', "set_image")
                => StateOf(pixels') = StateOf(pixels) ]_vars

\* has-image, after a set_cmap that followed the set_image.
C6_Witness ==
    /\ StateOf(pixels) = "has-image"
    /\ last.op = "set_cmap"
    /\ Len(Overlays) >= 1

(***************************************************************************)
(* C7.  add_ellipse(centroid, length, width, angle) adds exactly one new   *)
(* unfilled overlay, centred at centroid, its extent along its own major   *)
(* (height) axis being length and along its minor (width) axis being       *)
(* width, and returns its handle; the overlays already there stay, in      *)
(* place and unaltered, so k calls leave k distinct overlays.  A call with *)
(* no style argument always succeeds.                                      *)
(***************************************************************************)
C7_AddEllipseAddsOneOverlay ==
    [][ last'.op = "add_ellipse"
          => /\ last'.args.kwargs = {} => last'.exc = NoExc
             /\ last'.exc = NoExc
                  => LET old == surface[axes].patches
                         new == surface'[axes].patches
                         e   == new[Len(new)]
                     IN  /\ Len(new) = Len(old) + 1
                         /\ SubSeq(new, 1, Len(old)) = old
                         /\ e.kind = "Ellipse"
                         /\ e.fill = FALSE
                         /\ e.xy = last'.args.centroid
                         /\ e.height = last'.args.length
                         /\ e.width = last'.args.width
                         /\ last'.ret = e.id
                         /\ \A i \in 1..Len(old) : old[i].id # e.id
                         /\ \A s \in Surfaces \ {axes} :
                               surface'[s] = surface[s]
                         /\ surface'[axes].collections =
                               surface[axes].collections ]_vars

\* Two calls have left two overlays, each with a handle of its own.
C7_Witness ==
    /\ Succeeded(last, "add_ellipse")
    /\ Len(Overlays) = 2
    /\ Overlays[1].id # Overlays[2].id
    /\ last.ret = Overlays[2].id
    /\ Overlays[2].height # Overlays[2].width

(***************************************************************************)
(* C8.  overlay_moments(m, style) does to the display and the surfaces     *)
(* what add_ellipse(centroid=(m.cen_x, m.cen_y), length=m.length,          *)
(* width=m.width, angle=m.psi, style) does from the same state, for every  *)
(* style: the same overlay added, or nothing added where the call raises,  *)
(* and the one raises when the other does.  A style key both reject        *)
(* (length, fill, momparams) adds nothing; a key asymmetry is taken by     *)
(* add_ellipse and reaches no overlay.                                     *)
(***************************************************************************)
C8_OverlayMomentsIsAddEllipse ==
    [][ last'.op = "overlay_moments"
          => LET m == last'.args.momparams
                 k == last'.args.kwargs
             IN  /\ AddEllipseBody(<<m.cen_x, m.cen_y>>, m.length, m.width,
                                   m.psi, k)
                 /\ last'.exc.type = "none"
                      <=> AddEllipseOutcome(k).exc.type = "none" ]_vars

\* An overlay_moments with a style, off the diagonal, has added an overlay.
C8_Witness ==
    /\ Succeeded(last, "overlay_moments")
    /\ last.args.kwargs # {}
    /\ last.args.momparams.cen_x # last.args.momparams.cen_y
    /\ Len(Overlays) >= 1
    /\ Overlays[Len(Overlays)].style = last.args.kwargs

(***************************************************************************)
(* C9.  For a geometry that is not hexagonal the shape of pixel i is a     *)
(* square centred at (x_i, y_i) of side 2 * r_i, r_i = sqrt(area_i): its   *)
(* extent is [x_i - r_i, x_i + r_i] by [y_i - r_i, y_i + r_i].             *)
(***************************************************************************)
C9_SquareCentredOnPixel ==
    ~StartsWithHex(geom.pix_type)
        => \A i \in 1..N :
              LET r == sqrt(geom.pix_area[i])
              IN  Extent(pixels.patches[i]) =
                     [x0 |-> geom.pix_x[i] - r, x1 |-> geom.pix_x[i] + r,
                      y0 |-> geom.pix_y[i] - r, y1 |-> geom.pix_y[i] + r]

(***************************************************************************)
(* C10.  After every successful set_image and add_ellipse the display's    *)
(* own surface has been redrawn with the new values or the new overlay on  *)
(* it, whichever surface is pyplot's current one.                          *)
(***************************************************************************)
C10_OwnSurfaceRedrawn ==
    (Succeeded(last, "set_image") \/ Succeeded(last, "add_ellipse"))
        => drawn[axes] = Render(surface, pixels, axes)
====
